---- MODULE Spec2Model ----
(***************************************************************************)
(* Booking orchestrator of the FastAPI voice-assistant backend:           *)
(* BookingService.check_availability / create_booking over the            *)
(* CalendarService (Google Calendar store) and the FacilityService        *)
(* directory, invoked from RealtimeSession.handle_function_call.          *)
(*                                                                         *)
(* Strings the code formats are modelled as records                       *)
(* [prefix, text, a, b]: the category prefix added by the orchestrator,   *)
(* the fixed wording, and the (up to two) numbers interpolated into it.   *)
(* Wall-clock strings "HH:MM" are pairs <<HH, MM>>; instants are minutes  *)
(* since the start of day 0 in the one deployment timezone.               *)
(***************************************************************************)
EXTENDS Integers, Sequences, FiniteSets, TLC

\* ---------------------------------------------------------------- bounds
MaxCalls == 2
NumCourts == 2
ManyCourts == 10

\* ------------------------------------------------------------- constants
MinutesPerHour == 60
MinutesPerDay == 1440

\* ----------------------------------------------------------------- strings
Str(prefix, text, a, b) == [prefix |-> prefix, text |-> text, a |-> a, b |-> b]
None == Str("", "None", 0, 0)
Empty == Str("", "", 0, 0)
NoData == [kind |-> "None"]
NoIds == <<-1>>

\* ------------------------------------------------------------ time_utils
NoColon == <<-1, -1>>

parse_ok(t) == t[1] \in 0..23 /\ t[2] \in 0..59

parse_time(t) == t[1] * MinutesPerHour + t[2]

strftime_HM_NoWrap(total) ==
    <<total \div MinutesPerHour, total % MinutesPerHour>>

\* "%H:%M" of a datetime that is `total` minutes after midnight of today
strftime_HM(total) ==
    LET m == total % MinutesPerDay
    IN  <<m \div MinutesPerHour, m % MinutesPerHour>>

Ret(v) == [k |-> "return", v |-> v]
Raise(e) == [k |-> "raise", exc |-> e]

calculate_end_time(start_time, duration_minutes) ==
    IF ~parse_ok(start_time)
    THEN Raise("ValueError")
    ELSE Ret(strftime_HM(parse_time(start_time) + duration_minutes))

is_within_operating_hours(start_time, end_time, open_time, close_time) ==
    IF ~(parse_ok(start_time) /\ parse_ok(end_time)
           /\ parse_ok(open_time) /\ parse_ok(close_time))
    THEN <<FALSE, Str("", "Invalid time format", 0, 0)>>
    ELSE IF parse_time(start_time) < parse_time(open_time)
    THEN <<FALSE, Str("", "Facility opens at", parse_time(open_time), 0)>>
    ELSE IF parse_time(end_time) > parse_time(close_time)
    THEN <<FALSE, Str("", "Facility closes at", parse_time(close_time), 0)>>
    ELSE <<TRUE, Empty>>

date_ok(d) == d >= 1

combine_datetime(date, time_str) ==
    IF ~date_ok(date) \/ ~parse_ok(time_str)
    THEN Raise("ValueError")
    ELSE Ret(date * MinutesPerDay + parse_time(time_str))

get_end_datetime(start_dt, duration_minutes) == start_dt + duration_minutes

\* ------------------------------------------------------------ slot_utils
validate_slot_alignment(start_time) ==
    IF start_time = NoColon
    THEN <<FALSE, Str("", "Invalid time format", 0, 0)>>
    ELSE IF start_time[2] # 0
    THEN <<FALSE, Str("", "Start time must align with hourly boundaries", 0, 0)>>
    ELSE <<TRUE, Empty>>

validate_duration_MinimumOnly(duration_minutes, minimum_duration, duration_multiples) ==
    IF duration_minutes < minimum_duration
    THEN <<FALSE, Str("", "Duration must be at least", minimum_duration, 0)>>
    ELSE <<TRUE, Empty>>

validate_duration(duration_minutes, minimum_duration, duration_multiples) ==
    IF duration_minutes < minimum_duration
    THEN <<FALSE, Str("", "Duration must be at least", minimum_duration, 0)>>
    ELSE IF duration_minutes % duration_multiples # 0
    THEN <<FALSE, Str("", "Duration must be a multiple of",
                      duration_multiples, duration_minutes)>>
    ELSE <<TRUE, Empty>>

validate_booking_slot_AlwaysAligned(start_time, duration_minutes, booking_rules) ==
    LET aligned == validate_slot_alignment(start_time)
    IN  IF ~aligned[1]
        THEN aligned
        ELSE validate_duration(duration_minutes,
                               booking_rules.minimum_duration,
                               booking_rules.duration_multiples)

validate_booking_slot(start_time, duration_minutes, booking_rules) ==
    LET aligned == validate_slot_alignment(start_time)
    IN  IF booking_rules.fixed_slots /\ ~aligned[1]
        THEN aligned
        ELSE validate_duration(duration_minutes,
                               booking_rules.minimum_duration,
                               booking_rules.duration_multiples)

Range(seq) == {seq[i] : i \in 1..Len(seq)}

validate_court_numbers_DuplicatesFirst(court_numbers, number_of_courts) ==
    IF Len(court_numbers) = 0
    THEN <<FALSE, Str("", "At least one court must be specified", 0, 0)>>
    ELSE IF Len(court_numbers) # Cardinality(Range(court_numbers))
    THEN <<FALSE, Str("", "Duplicate court numbers found in request", 0, 0)>>
    ELSE IF \E i \in 1..Len(court_numbers) :
                court_numbers[i] < 1 \/ court_numbers[i] > number_of_courts
    THEN LET i == CHOOSE i \in 1..Len(court_numbers) :
                    /\ court_numbers[i] < 1 \/ court_numbers[i] > number_of_courts
                    /\ \A h \in 1..(i - 1) :
                           court_numbers[h] >= 1 /\ court_numbers[h] <= number_of_courts
         IN  <<FALSE, Str("", "Invalid court number", court_numbers[i], number_of_courts)>>
    ELSE <<TRUE, Empty>>

validate_court_numbers(court_numbers, number_of_courts) ==
    IF Len(court_numbers) = 0
    THEN <<FALSE, Str("", "At least one court must be specified", 0, 0)>>
    ELSE IF \E i \in 1..Len(court_numbers) :
                court_numbers[i] < 1 \/ court_numbers[i] > number_of_courts
    THEN LET i == CHOOSE i \in 1..Len(court_numbers) :
                    /\ court_numbers[i] < 1 \/ court_numbers[i] > number_of_courts
                    /\ \A h \in 1..(i - 1) :
                           court_numbers[h] >= 1 /\ court_numbers[h] <= number_of_courts
         IN  <<FALSE, Str("", "Invalid court number", court_numbers[i], number_of_courts)>>
    ELSE IF Len(court_numbers) # Cardinality(Range(court_numbers))
    THEN <<FALSE, Str("", "Duplicate court numbers found in request", 0, 0)>>
    ELSE <<TRUE, Empty>>

\* ------------------------------------------------------ facility_service
FacilityId == "pickle_x_mysore"
UnknownFacilityId == "no_such_facility"

Facility ==
    [facility_id |-> FacilityId,
     facility_name |-> "Pickle X",
     number_of_courts |-> NumCourts,
     open_time |-> <<6, 0>>,
     close_time |-> <<22, 0>>,
     booking_rules |-> [minimum_duration |-> 60,
                        duration_multiples |-> 60,
                        fixed_slots |-> TRUE]]

load_facilities == [id \in {FacilityId} |-> Facility]

get_facility_by_id(directory, facility_id) ==
    IF facility_id \in DOMAIN directory
    THEN <<TRUE, directory[facility_id]>>
    ELSE <<FALSE, Facility>>

\* ------------------------------------------------------ calendar_service
Sessions == {1, 2, 3}
WorkerOf(s) == IF s = 3 THEN 2 ELSE 1

\* what .execute() of an events().list or events().insert request does: it
\* returns, raises googleapiclient's HttpError, or raises another exception
\* (httplib2.ServerNotFoundError, socket.timeout, ...)
ListOutcomes == {"ok", "HttpError", "TransportError"}
InsertOutcomes == {"ok", "HttpError", "TransportError"}
SessionOutcomes == {"ok"}

\* The text of an event is a sequence of pieces: the fixed wording, the
\* decimal digits of a number, and the pieces of an interpolated string.
\* A facility id or a customer name that holds another string the program
\* looks for is cut at that string.
OtherFacilityId == "pickle_x"
MarkerName == "Court 2 Club"

Text(str) ==
    IF str = "pickle_x_mysore" THEN <<"pickle_x", "_mysore">>
    ELSE IF str = "Court 2 Club" THEN <<"Court ", "2", " Club">>
    ELSE <<str>>

DigitChars == <<"0", "1", "2", "3", "4", "5", "6", "7", "8", "9">>

RECURSIVE Digits(_)
Digits(n) ==
    IF n < 10 THEN <<DigitChars[n + 1]>>
    ELSE Append(Digits(n \div 10), DigitChars[(n % 10) + 1])

\* needle in hay
Contains(hay, needle) ==
    \E i \in 0..(Len(hay) - Len(needle)) :
        SubSeq(hay, i + 1, i + Len(needle)) = needle

\* event_title = f"Court {court_number} Booking - {customer_name}"
Summary(ev) ==
    <<"Court ">> \o Digits(ev.court_number) \o <<" Booking - ">>
        \o Text(ev.customer_name)

\* event_description; the phone number, the facility name, the date and the
\* times are pieces of their own
Description(ev) ==
    <<"Customer Name: ">> \o Text(ev.customer_name)
        \o <<"\nPhone: ", "phone", "\nFacility: ", "facility_name", " (">>
        \o Text(ev.facility_id)
        \o <<")\nCourt Number: ">> \o Digits(ev.court_number)
        \o <<"\nDate: ", "date", "\nStart Time: ", "start_time",
             "\nEnd Time: ", "end_time", "\nDuration: ", "duration", " minutes">>

CourtMarkerInSummary_InDescription(court_number, ev) ==
    Contains(Description(ev), <<"Court ">> \o Digits(court_number))

\* f"Court {court_number}" in event_summary
CourtMarkerInSummary(court_number, ev) ==
    Contains(Summary(ev), <<"Court ">> \o Digits(court_number))

\* facility_id in event_description or facility_id in event_summary
FacilityIdInEvent(facility_id, ev) ==
    \/ Contains(Description(ev), Text(facility_id))
    \/ Contains(Summary(ev), Text(facility_id))

events_list_StartingInside(store, start_dt, end_dt) ==
    {i \in 1..Len(store) : store[i].start >= start_dt /\ store[i].start < end_dt}

\* events().list(timeMin, timeMax): the events that end after timeMin and
\* start before timeMax
events_list(store, start_dt, end_dt) ==
    {i \in 1..Len(store) : store[i].end > start_dt /\ store[i].start < end_dt}

check_court_availability(service, store, outcome, court_number, start_dt, end_dt, facility_id) ==
    IF ~service
    THEN Ret(TRUE)
    ELSE IF outcome = "HttpError"
    THEN Ret(TRUE)
    ELSE IF outcome = "TransportError"
    THEN Raise("TransportError")
    ELSE Ret(~ \E i \in events_list(store, start_dt, end_dt) :
                  /\ CourtMarkerInSummary(court_number, store[i])
                  /\ FacilityIdInEvent(facility_id, store[i]))

create_booking_event_UndoOnFailure(service, store, outcome, facility_id, court_number, customer_name, start_dt, end_dt) ==
    IF ~service
    THEN [k |-> "return", id |-> 0, store |-> store]
    ELSE IF outcome = "HttpError"
    THEN [k |-> "return", id |-> 0, store |-> SubSeq(store, 1, Len(store) - 1)]
    ELSE IF outcome = "TransportError"
    THEN [k |-> "raise", exc |-> "TransportError", store |-> store]
    ELSE [k |-> "return",
          id |-> Len(store) + 1,
          store |-> Append(store,
                           [id |-> Len(store) + 1,
                            facility_id |-> facility_id,
                            court_number |-> court_number,
                            customer_name |-> customer_name,
                            start |-> start_dt,
                            end |-> end_dt])]

create_booking_event(service, store, outcome, facility_id, court_number, customer_name, start_dt, end_dt) ==
    IF ~service
    THEN [k |-> "return", id |-> 0, store |-> store]
    ELSE IF outcome = "HttpError"
    THEN [k |-> "return", id |-> 0, store |-> store]
    ELSE IF outcome = "TransportError"
    THEN [k |-> "raise", exc |-> "TransportError", store |-> store]
    ELSE [k |-> "return",
          id |-> Len(store) + 1,
          store |-> Append(store,
                           [id |-> Len(store) + 1,
                            facility_id |-> facility_id,
                            court_number |-> court_number,
                            customer_name |-> customer_name,
                            start |-> start_dt,
                            end |-> end_dt])]

\* ------------------------------------------------------- booking_service
CheckAvailabilityResponse(success, available, free_courts, reason, data, error) ==
    [success |-> success,
     available |-> available,
     free_courts |-> free_courts,
     reason_if_not_available |-> reason,
     data |-> data,
     error |-> error]

CreateBookingResponse(success, booking_id, message, data, error) ==
    [success |-> success,
     booking_id |-> booking_id,
     message |-> message,
     data |-> data,
     error |-> error]

WithPrefix(prefix, s) == Str(prefix, s.text, s.a, s.b)

RECURSIVE Join(_)
Join(ids) ==
    IF Len(ids) = 0 THEN <<>>
    ELSE IF Len(ids) = 1 THEN <<ids[1]>>
    ELSE <<ids[1], 0>> \o Join(Tail(ids))

Resolve(facility, start_dt, end_dt, end_time) ==
    [k |-> "resolve", facility |-> facility,
     start_dt |-> start_dt, end_dt |-> end_dt, end_time |-> end_time]

CheckPrologue_HoursUnchecked(directory, request) ==
    LET found == get_facility_by_id(directory, request.facility_id)
        facility == found[2]
        slot == validate_booking_slot(request.start_time,
                                      request.duration_minutes,
                                      facility.booking_rules)
        end_time == calculate_end_time(request.start_time, request.duration_minutes)
        start_dt == combine_datetime(request.date, request.start_time)
    IN  IF ~found[1]
        THEN Ret(CheckAvailabilityResponse(FALSE, FALSE, <<>>, None, NoData,
                     Str("Facility not found: ", request.facility_id, 0, 0)))
        ELSE IF ~slot[1]
        THEN Ret(CheckAvailabilityResponse(FALSE, FALSE, <<>>, slot[2], NoData, None))
        ELSE IF end_time.k = "raise"
        THEN end_time
        ELSE IF start_dt.k = "raise"
        THEN start_dt
        ELSE Resolve(facility, start_dt.v,
                     get_end_datetime(start_dt.v, request.duration_minutes),
                     end_time.v)

\* check_availability up to the call of the resolver
CheckPrologue(directory, request) ==
    LET found == get_facility_by_id(directory, request.facility_id)
        facility == found[2]
        slot == validate_booking_slot(request.start_time,
                                      request.duration_minutes,
                                      facility.booking_rules)
        end_time == calculate_end_time(request.start_time, request.duration_minutes)
        hours == is_within_operating_hours(request.start_time, end_time.v,
                                           facility.open_time, facility.close_time)
        start_dt == combine_datetime(request.date, request.start_time)
    IN  IF ~found[1]
        THEN Ret(CheckAvailabilityResponse(FALSE, FALSE, <<>>, None, NoData,
                     Str("Facility not found: ", request.facility_id, 0, 0)))
        ELSE IF ~slot[1]
        THEN Ret(CheckAvailabilityResponse(FALSE, FALSE, <<>>, slot[2], NoData, None))
        ELSE IF end_time.k = "raise"
        THEN end_time
        ELSE IF ~hours[1]
        THEN Ret(CheckAvailabilityResponse(FALSE, FALSE, <<>>, hours[2], NoData, None))
        ELSE IF start_dt.k = "raise"
        THEN start_dt
        ELSE Resolve(facility, start_dt.v,
                     get_end_datetime(start_dt.v, request.duration_minutes),
                     end_time.v)

CheckEpilogue_TotalCourts(request, facility, available_courts) ==
    CheckAvailabilityResponse(TRUE,
        facility.number_of_courts >= request.number_of_courts,
        available_courts, None, NoData, None)

CheckEpilogue_ShortfallFails(request, facility, available_courts) ==
    IF Len(available_courts) < request.number_of_courts
    THEN CheckAvailabilityResponse(FALSE, FALSE, <<>>,
             Str("", "Only court(s) available, but requested",
                 Len(available_courts), request.number_of_courts),
             NoData, None)
    ELSE CheckAvailabilityResponse(TRUE, TRUE, available_courts, None, NoData, None)

\* check_availability after the resolver returned available_courts
CheckEpilogue(request, facility, available_courts) ==
    IF Len(available_courts) < request.number_of_courts
    THEN CheckAvailabilityResponse(TRUE, FALSE, available_courts,
             Str("", "Only court(s) available, but requested",
                 Len(available_courts), request.number_of_courts),
             [kind |-> "shortfall",
              available_courts |-> available_courts,
              requested_courts |-> request.number_of_courts],
             None)
    ELSE CheckAvailabilityResponse(TRUE, TRUE, available_courts, None,
             [kind |-> "available",
              available_courts |-> available_courts,
              total_courts |-> facility.number_of_courts,
              date |-> request.date,
              start_time |-> request.start_time,
              duration_minutes |-> request.duration_minutes],
             None)

CheckExcept(exc) ==
    CheckAvailabilityResponse(FALSE, FALSE, <<>>, None, NoData,
        Str("Error checking availability: ", exc, 0, 0))

CreateFailure(error) == CreateBookingResponse(FALSE, NoIds, None, NoData, error)

CreateValidate_CourtsFirst(directory, request) ==
    LET found == get_facility_by_id(directory, request.facility_id)
        facility == found[2]
        slot == validate_booking_slot(request.start_time,
                                      request.duration_minutes,
                                      facility.booking_rules)
        courts == validate_court_numbers(request.court_numbers,
                                         facility.number_of_courts)
        end_time == calculate_end_time(request.start_time, request.duration_minutes)
        hours == is_within_operating_hours(request.start_time, end_time.v,
                                           facility.open_time, facility.close_time)
        start_dt == combine_datetime(request.date, request.start_time)
    IN  IF ~found[1]
        THEN Ret(CreateFailure(Str("Facility not found: ", request.facility_id, 0, 0)))
        ELSE IF ~courts[1]
        THEN Ret(CreateFailure(WithPrefix("Invalid court numbers: ", courts[2])))
        ELSE IF ~slot[1]
        THEN Ret(CreateFailure(WithPrefix("Invalid slot: ", slot[2])))
        ELSE IF end_time.k = "raise"
        THEN end_time
        ELSE IF ~hours[1]
        THEN Ret(CreateFailure(WithPrefix("Outside operating hours: ", hours[2])))
        ELSE IF start_dt.k = "raise"
        THEN start_dt
        ELSE Resolve(facility, start_dt.v,
                     get_end_datetime(start_dt.v, request.duration_minutes),
                     end_time.v)

\* create_booking from the facility lookup up to the call of the resolver
CreateValidate(directory, request) ==
    LET found == get_facility_by_id(directory, request.facility_id)
        facility == found[2]
        slot == validate_booking_slot(request.start_time,
                                      request.duration_minutes,
                                      facility.booking_rules)
        courts == validate_court_numbers(request.court_numbers,
                                         facility.number_of_courts)
        end_time == calculate_end_time(request.start_time, request.duration_minutes)
        hours == is_within_operating_hours(request.start_time, end_time.v,
                                           facility.open_time, facility.close_time)
        start_dt == combine_datetime(request.date, request.start_time)
    IN  IF ~found[1]
        THEN Ret(CreateFailure(Str("Facility not found: ", request.facility_id, 0, 0)))
        ELSE IF ~slot[1]
        THEN Ret(CreateFailure(WithPrefix("Invalid slot: ", slot[2])))
        ELSE IF ~courts[1]
        THEN Ret(CreateFailure(WithPrefix("Invalid court numbers: ", courts[2])))
        ELSE IF end_time.k = "raise"
        THEN end_time
        ELSE IF ~hours[1]
        THEN Ret(CreateFailure(WithPrefix("Outside operating hours: ", hours[2])))
        ELSE IF start_dt.k = "raise"
        THEN start_dt
        ELSE Resolve(facility, start_dt.v,
                     get_end_datetime(start_dt.v, request.duration_minutes),
                     end_time.v)

NotInitialized == Str("", "Calendar service is not initialized", 0, 0)

CreatePrologue_Unguarded(service, directory, request) ==
    CreateValidate(directory, request)

\* create_booking up to the call of the resolver
CreatePrologue(service, directory, request) ==
    IF ~service
    THEN Ret(CreateFailure(NotInitialized))
    ELSE CreateValidate(directory, request)

CreateVerify_ByCourtNumber(request, available_courts) ==
    LET missing == Range(request.court_numbers) \ Range(available_courts)
    IN  IF missing # {}
        THEN Ret(CreateFailure(Str("", "Court is not available at the requested time",
                                   CHOOSE m \in missing : \A n \in missing : m <= n, 0)))
        ELSE [k |-> "write"]

\* the first loop over request.court_numbers: membership in the free list
CreateVerify(request, available_courts) ==
    IF \E j \in 1..Len(request.court_numbers) :
           request.court_numbers[j] \notin Range(available_courts)
    THEN LET j == CHOOSE j \in 1..Len(request.court_numbers) :
                    /\ request.court_numbers[j] \notin Range(available_courts)
                    /\ \A h \in 1..(j - 1) :
                           request.court_numbers[h] \in Range(available_courts)
         IN  Ret(CreateFailure(Str("", "Court is not available at the requested time",
                                   request.court_numbers[j], 0)))
    ELSE [k |-> "write"]

CreateEpilogue_AllOrNothing(request, facility, end_time, booking_ids) ==
    IF Len(booking_ids) < Len(request.court_numbers)
    THEN CreateFailure(Str("", "Failed to create calendar events", 0, 0))
    ELSE CreateBookingResponse(TRUE, Join(booking_ids),
             Str("", "Booking confirmed", request.date, request.duration_minutes),
             [kind |-> "booking",
              facility |-> facility.facility_name,
              court_numbers |-> request.court_numbers,
              date |-> request.date,
              start_time |-> request.start_time,
              end_time |-> end_time,
              duration_minutes |-> request.duration_minutes,
              customer_name |-> request.name,
              booking_ids |-> booking_ids],
             None)

\* create_booking after the write loop collected booking_ids
CreateEpilogue(request, facility, end_time, booking_ids) ==
    IF Len(booking_ids) = 0
    THEN CreateFailure(Str("", "Failed to create calendar events", 0, 0))
    ELSE CreateBookingResponse(TRUE, Join(booking_ids),
             Str("", "Booking confirmed", request.date, request.duration_minutes),
             [kind |-> "booking",
              facility |-> facility.facility_name,
              court_numbers |-> request.court_numbers,
              date |-> request.date,
              start_time |-> request.start_time,
              end_time |-> end_time,
              duration_minutes |-> request.duration_minutes,
              customer_name |-> request.name,
              booking_ids |-> booking_ids],
             None)

CreateExcept(exc) == CreateFailure(Str("Error creating booking: ", exc, 0, 0))

Caught_ValueErrorOnly(exc) == exc = "ValueError"

\* `except Exception`: every exception the body raises is caught
Caught(exc) == TRUE

\* ---------------------------------------------------------------- inputs
FacilityIdInputs == {FacilityId, UnknownFacilityId}
DateInputs == {0, 1}
TimeInputs == {<<14, 0>>, <<14, 30>>, <<5, 0>>, <<21, 0>>, <<23, 0>>, <<25, 0>>, NoColon}
DurationInputs == {30, 60, 90, 120}
CourtInputs == 1..(NumCourts + 1)
CourtListInputs ==
    {<<>>} \cup {<<a>> : a \in CourtInputs}
           \cup {<<a, b>> : a \in CourtInputs, b \in CourtInputs}
NameInputs == {"Asha"}

CheckAvailabilityRequest(facility_ids, dates, times, durations, counts) ==
    [op : {"check_availability"},
     facility_id : facility_ids,
     date : dates,
     start_time : times,
     duration_minutes : durations,
     number_of_courts : counts,
     name : {""},
     court_numbers : {<<>>}]

CreateBookingRequest(facility_ids, dates, times, durations, court_lists) ==
    [op : {"create_booking"},
     facility_id : facility_ids,
     date : dates,
     start_time : times,
     duration_minutes : durations,
     number_of_courts : {0},
     name : NameInputs,
     court_numbers : court_lists]

\* every combination of the inputs above
AllRequests ==
    CheckAvailabilityRequest(FacilityIdInputs, DateInputs, TimeInputs,
                             DurationInputs, CourtInputs)
    \cup CreateBookingRequest(FacilityIdInputs, DateInputs, TimeInputs,
                              DurationInputs, CourtListInputs)

\* the requests of concurrent sessions: well-formed ones on three windows,
\* 14:00-15:00, 14:00-16:00 and 15:00-16:00, that overlap or only touch, and
\* one with an unparseable start time
SessionRequests ==
    CheckAvailabilityRequest({FacilityId}, {1}, {<<14, 0>>}, {60}, {1, NumCourts})
    \cup CreateBookingRequest({FacilityId}, {1}, {<<14, 0>>}, {60},
                              {<<1>>, <<1, 2>>, <<2, 1>>})
    \cup CreateBookingRequest({FacilityId}, {1}, {<<14, 0>>}, {120}, {<<1>>})
    \cup CreateBookingRequest({FacilityId}, {1}, {<<15, 0>>}, {60}, {<<1>>})
    \cup CheckAvailabilityRequest({FacilityId}, {1}, {<<25, 0>>}, {60}, {1})

\* ----------------------------------------------------------------- state
VARIABLES
    facilities,   \* facility_service.facilities
    service,      \* calendar_service.service: TRUE when the client was built
    events,       \* the events of the Google calendar, in insertion order
    written,      \* per event: the call that inserted it, and the number of
                  \* events the calendar held when that call read the court
    succeeded,    \* the create_booking calls that returned success=true
    call,         \* per realtime session: the function call it is executing
    last,         \* the response handle_function_call returned last
    answered,     \* the first check_availability call that finished: what
                  \* it was asked, what the calendar answered, what it returned
    budget,       \* function_call messages still to come
    args,         \* the arguments a validator or time helper is applied to
    value,        \* what it returned
    socket        \* per realtime session that is followed: whether its
                  \* websocket loop is running, the message it read last, the
                  \* type of the one before, and what it sent since

vars == <<facilities, service, events, written, succeeded, call, last,
          answered, budget, args, value, socket>>

NoRequest ==
    [op |-> "none", facility_id |-> "", date |-> 0, start_time |-> NoColon,
     duration_minutes |-> 0, number_of_courts |-> 0, name |-> "",
     court_numbers |-> <<>>]

IdleCall ==
    [pc |-> "idle", id |-> 0, request |-> NoRequest, cursor |-> 0,
     available_courts |-> <<>>, booking_ids |-> <<>>,
     reads |-> 0, writes |-> 0, nones |-> 0,
     failed_reads |-> {}, seen |-> <<>>,
     courts_read |-> <<>>, courts_written |-> <<>>]

NoLast == [session |-> 0]
NoAnswer == [call |-> 0]
NoArgs == [fn |-> "none"]
NoValue == [k |-> "none"]
NoSocket == <<>>
NoMessage == [type |-> "none", function_name |-> "", arguments |-> "", call |-> 0]
OpenSocket == [open |-> TRUE, previous |-> "none", message |-> NoMessage, sent |-> <<>>]

Init ==
    /\ facilities = load_facilities
    /\ service \in BOOLEAN
    /\ events = <<>>
    /\ written = <<>>
    /\ succeeded = {}
    /\ call = [s \in Sessions |-> IdleCall]
    /\ last = NoLast
    /\ answered = NoAnswer
    /\ budget = MaxCalls
    /\ args = NoArgs
    /\ value = NoValue
    /\ socket = NoSocket

InFlight(s) == call[s].pc \in {"read", "write"}

\* handle_function_call is a plain call inside the websocket coroutine: the
\* event loop of a server process runs it to completion before it serves
\* another session of the same process
LoopBusy(w) == \E s \in Sessions : WorkerOf(s) = w /\ InFlight(s)

Window(request) ==
    LET start_dt == combine_datetime(request.date, request.start_time).v
    IN  [start_dt |-> start_dt,
         end_dt |-> get_end_datetime(start_dt, request.duration_minutes)]

\* what the caller of handle_function_call can tell about the call
Observed(s, c, result, raised, resolved) ==
    [session |-> s,
     call |-> c.id,
     request |-> c.request,
     result |-> result,
     raised |-> raised,
     resolved |-> resolved,
     available_courts |-> c.available_courts,
     booking_ids |-> c.booking_ids,
     reads |-> c.reads, writes |-> c.writes, nones |-> c.nones,
     failed_reads |-> c.failed_reads,
     seen |-> c.seen,
     courts_read |-> c.courts_read,
     courts_written |-> c.courts_written]

Answered(observed) ==
    IF answered = NoAnswer /\ observed.request.op = "check_availability"
    THEN observed
    ELSE answered

\* data = json.loads(message): the loop of the session has read `message`
Read(k, message) ==
    [k EXCEPT !.previous = k.message.type, !.message = message, !.sent = <<>>]

FunctionCallMessage(function_name, arguments, id) ==
    [type |-> "function_call", function_name |-> function_name,
     arguments |-> arguments, call |-> id]

\* await websocket.send_json({"type": "function_result", ...})
function_result(function_name, result) ==
    [type |-> "function_result", function_name |-> function_name,
     result |-> result]

\* the socket of session s while it handles the function_call message that
\* started call c, `replies` being what it sent since it read the message
Exchange(s, c, replies) ==
    IF s \notin DOMAIN socket THEN socket
    ELSE LET k == IF call[s].pc = "idle"
                  THEN Read(socket[s],
                            FunctionCallMessage(c.request.op, "object", c.id))
                  ELSE socket[s]
         IN  [socket EXCEPT ![s] = [k EXCEPT !.sent = replies]]

\* the function is still running: it is at its next request to the calendar
Continue(s, c) ==
    /\ call' = [call EXCEPT ![s] = c]
    /\ succeeded' = succeeded
    /\ last' = NoLast
    /\ answered' = answered
    /\ socket' = Exchange(s, c, <<>>)

\* the function returns `result`
Return(s, c, result, resolved) ==
    /\ call' = [call EXCEPT ![s] = IdleCall]
    /\ succeeded' = IF c.request.op = "create_booking" /\ result.success
                    THEN succeeded \cup {c.id} ELSE succeeded
    /\ last' = Observed(s, c, result, "none", resolved)
    /\ answered' = Answered(Observed(s, c, result, "none", resolved))
    /\ socket' = Exchange(s, c, <<function_result(c.request.op, result)>>)

\* the body raised `exc`
Except(s, c, exc) ==
    IF Caught(exc)
    THEN LET result == IF c.request.op = "check_availability"
                       THEN CheckExcept(exc) ELSE CreateExcept(exc)
         IN  /\ call' = [call EXCEPT ![s] = IdleCall]
             /\ succeeded' = succeeded
             /\ last' = Observed(s, c, result, exc, FALSE)
             /\ answered' = Answered(Observed(s, c, result, exc, FALSE))
             /\ socket' = Exchange(s, c, <<function_result(c.request.op, result)>>)
    ELSE Continue(s, [c EXCEPT !.pc = "crashed"])

RECURSIVE UpTo(_)
UpTo(n) == IF n <= 0 THEN <<>> ELSE Append(UpTo(n - 1), n)

AfterResolver_CourtsNotCleared(s, c, facility) ==
    IF c.request.op = "check_availability"
    THEN Return(s, c,
             CheckEpilogue(c.request, facility,
                 (IF answered = NoAnswer THEN <<>> ELSE answered.available_courts)
                     \o c.available_courts),
             TRUE)
    ELSE LET verified == CreateVerify(c.request, c.available_courts)
         IN  IF verified.k = "return"
             THEN Return(s, c, verified.v, TRUE)
             ELSE Continue(s, [c EXCEPT !.pc = "write", !.cursor = 1])

AfterResolver_CheckHolds(s, c, facility) ==
    LET verified == CreateVerify(c.request, c.available_courts)
    IN  IF c.request.op = "check_availability" /\ c.available_courts = <<>>
        THEN Return(s, c, CheckEpilogue(c.request, facility, c.available_courts), TRUE)
        ELSE IF c.request.op = "check_availability"
        THEN Continue(s, [c EXCEPT !.pc = "write", !.cursor = 1,
                                   !.request.court_numbers = c.available_courts])
        ELSE IF verified.k = "return"
        THEN Return(s, c, verified.v, TRUE)
        ELSE Continue(s, [c EXCEPT !.pc = "write", !.cursor = 1])

\* the resolver returned: the rest of the function, or its write loop
AfterResolver(s, c, facility) ==
    IF c.request.op = "check_availability"
    THEN Return(s, c, CheckEpilogue(c.request, facility, c.available_courts), TRUE)
    ELSE LET verified == CreateVerify(c.request, c.available_courts)
         IN  IF verified.k = "return"
             THEN Return(s, c, verified.v, TRUE)
             ELSE Continue(s, [c EXCEPT !.pc = "write", !.cursor = 1])

\* a function_call message is handled: the function runs up to its first
\* request to the calendar
BeginCall(s, request) ==
    /\ budget' = budget - 1
    /\ UNCHANGED <<facilities, service, events, written, args, value>>
    /\ LET c == [IdleCall EXCEPT !.request = request, !.id = budget]
           prologue == IF request.op = "check_availability"
                       THEN CheckPrologue(facilities, request)
                       ELSE CreatePrologue(service, facilities, request)
       IN  IF prologue.k = "return"
           THEN Return(s, c, prologue.v, FALSE)
           ELSE IF prologue.k = "raise"
           THEN Except(s, c, prologue.exc)
           ELSE IF ~service
           THEN AfterResolver(s,
                    [c EXCEPT !.available_courts =
                                  UpTo(prologue.facility.number_of_courts),
                              !.courts_read =
                                  UpTo(prologue.facility.number_of_courts)],
                    prologue.facility)
           ELSE Continue(s, [c EXCEPT !.pc = "read", !.cursor = 1])

Begin(s, requests) ==
    /\ call[s].pc = "idle"
    /\ budget > 0
    /\ ~LoopBusy(WorkerOf(s))
    /\ \E request \in requests : BeginCall(s, request)

Collect_Always(available_courts, court_num, free) ==
    Append(available_courts, court_num)

\* if self.check_court_availability(court_num, ...):
\*     available_courts.append(court_num)
Collect(available_courts, court_num, free) ==
    IF free THEN Append(available_courts, court_num) ELSE available_courts

ReadCourt_RetryOnHttpError(s, outcome) ==
    /\ call[s].pc = "read"
    /\ UNCHANGED <<facilities, service, events, written, budget, args, value>>
    /\ LET c == call[s]
           facility == get_facility_by_id(facilities, c.request.facility_id)[2]
           w == Window(c.request)
           free == check_court_availability(service, events, outcome,
                       c.cursor, w.start_dt, w.end_dt, facility.facility_id)
           read == [c EXCEPT !.reads = @ + 1,
                             !.courts_read = Append(@, c.cursor),
                             !.failed_reads = IF outcome # "ok"
                                              THEN @ \cup {c.cursor} ELSE @,
                             !.seen = Append(@, IF outcome = "ok"
                                                THEN Len(events) ELSE -1)]
       IN  IF free.k = "raise"
           THEN Except(s, read, free.exc)
           ELSE IF outcome = "HttpError"
           THEN Continue(s, read)
           ELSE LET next == [read EXCEPT !.available_courts =
                                             Collect(@, c.cursor, free.v),
                                         !.cursor = @ + 1]
                IN  IF c.cursor < facility.number_of_courts
                    THEN Continue(s, next)
                    ELSE AfterResolver(s, next, facility)

\* one iteration of the loop of get_available_courts: one events().list
ReadCourt(s, outcome) ==
    /\ call[s].pc = "read"
    /\ UNCHANGED <<facilities, service, events, written, budget, args, value>>
    /\ LET c == call[s]
           facility == get_facility_by_id(facilities, c.request.facility_id)[2]
           w == Window(c.request)
           free == check_court_availability(service, events, outcome,
                       c.cursor, w.start_dt, w.end_dt, facility.facility_id)
           read == [c EXCEPT !.reads = @ + 1,
                             !.courts_read = Append(@, c.cursor),
                             !.failed_reads = IF outcome # "ok"
                                              THEN @ \cup {c.cursor} ELSE @,
                             !.seen = Append(@, IF outcome = "ok"
                                                THEN Len(events) ELSE -1)]
       IN  IF free.k = "raise"
           THEN Except(s, read, free.exc)
           ELSE LET next == [read EXCEPT !.available_courts =
                                             Collect(@, c.cursor, free.v),
                                         !.cursor = @ + 1]
                IN  IF c.cursor < facility.number_of_courts
                    THEN Continue(s, next)
                    ELSE AfterResolver(s, next, facility)

RECURSIVE SortedCourts(_)
SortedCourts(courts) ==
    IF courts = {} THEN <<>>
    ELSE LET least == CHOOSE m \in courts : \A n \in courts : m <= n
         IN  <<least>> \o SortedCourts(courts \ {least})

court_num_Sorted(court_numbers, cursor) ==
    IF cursor <= Cardinality(Range(court_numbers))
    THEN SortedCourts(Range(court_numbers))[cursor]
    ELSE court_numbers[cursor]

\* for court_num in request.court_numbers: the court of the iteration
court_num(court_numbers, cursor) == court_numbers[cursor]

\* one iteration of the write loop of create_booking: one events().insert
WriteCourt(s, outcome) ==
    /\ call[s].pc = "write"
    /\ UNCHANGED <<facilities, service, budget, args, value>>
    /\ LET c == call[s]
           facility == get_facility_by_id(facilities, c.request.facility_id)[2]
           w == Window(c.request)
           court == court_num(c.request.court_numbers, c.cursor)
           created == create_booking_event(service, events, outcome,
                          facility.facility_id, court, c.request.name,
                          w.start_dt, w.end_dt)
           wrote == [c EXCEPT !.writes = @ + 1,
                              !.courts_written = Append(@, court)]
       IN  /\ events' = created.store
           /\ written' = IF Len(created.store) > Len(events)
                         THEN Append(written, [session |-> s, call |-> c.id,
                                               seen |-> c.seen[court]])
                         ELSE written
           /\ IF created.k = "raise"
              THEN Except(s, wrote, created.exc)
              ELSE LET next == [wrote EXCEPT
                                   !.booking_ids = IF created.id # 0
                                                   THEN Append(@, created.id) ELSE @,
                                   !.nones = IF created.id # 0 THEN @ ELSE @ + 1,
                                   !.cursor = @ + 1]
                   IN  IF c.cursor < Len(c.request.court_numbers)
                       THEN Continue(s, next)
                       ELSE Return(s, next,
                                CreateEpilogue(c.request, facility,
                                    calculate_end_time(c.request.start_time,
                                        c.request.duration_minutes).v,
                                    next.booking_ids),
                                TRUE)

Next ==
    \/ \E s \in Sessions : Begin(s, SessionRequests)
    \/ \E s \in Sessions, outcome \in SessionOutcomes : ReadCourt(s, outcome)
    \/ \E s \in Sessions, outcome \in SessionOutcomes : WriteCourt(s, outcome)

Spec == Init /\ [][Next]_vars

\* One function call, of any request, on a calendar that already holds
\* bookings written by earlier calls.
SeedEvent(id, court_number, start_dt, end_dt) ==
    [id |-> id, facility_id |-> FacilityId, court_number |-> court_number,
     customer_name |-> "Asha", start |-> start_dt, end |-> end_dt]

SeedStores ==
    {<<>>,
     <<SeedEvent(1, NumCourts, MinutesPerDay + 14 * MinutesPerHour,
                 MinutesPerDay + 15 * MinutesPerHour)>>,
     <<SeedEvent(1, 1, MinutesPerDay + 14 * MinutesPerHour,
                 MinutesPerDay + 16 * MinutesPerHour),
       SeedEvent(2, NumCourts, MinutesPerDay + 14 * MinutesPerHour,
                 MinutesPerDay + 16 * MinutesPerHour)>>}

InitOne ==
    /\ facilities = load_facilities
    /\ service \in BOOLEAN
    /\ events \in SeedStores
    /\ written = [i \in 1..Len(events) |-> [session |-> 0, call |-> 0, seen |-> i - 1]]
    /\ succeeded = {}
    /\ call = [s \in Sessions |-> IdleCall]
    /\ last = NoLast
    /\ answered = NoAnswer
    /\ budget = 1
    /\ args = NoArgs
    /\ value = NoValue
    /\ socket = NoSocket

NextOne ==
    \/ \E s \in Sessions : Begin(s, AllRequests)
    \/ \E s \in Sessions, outcome \in ListOutcomes : ReadCourt(s, outcome)
    \/ \E s \in Sessions, outcome \in InsertOutcomes : WriteCourt(s, outcome)

SpecOne == InitOne /\ [][NextOne]_vars

\* One function call with every request to the calendar returning: a
\* function that is at events().list or events().insert gets an answer or an
\* exception. The requests are the ones that reach the calendar, with any
\* list of courts, and ones that return or raise before they reach it.
LiveRequests ==
    CheckAvailabilityRequest(FacilityIdInputs, {1}, {<<14, 0>>, <<25, 0>>}, {60},
                             {1, NumCourts})
    \cup CreateBookingRequest(FacilityIdInputs, {1}, {<<14, 0>>, <<25, 0>>}, {60},
                              CourtListInputs)

NextLive ==
    \/ \E s \in Sessions : Begin(s, LiveRequests)
    \/ \E s \in Sessions, outcome \in ListOutcomes : ReadCourt(s, outcome)
    \/ \E s \in Sessions, outcome \in InsertOutcomes : WriteCourt(s, outcome)

LiveOne ==
    /\ InitOne
    /\ [][NextLive]_vars
    /\ \A s \in Sessions :
           /\ WF_vars(\E outcome \in ListOutcomes : ReadCourt(s, outcome))
           /\ WF_vars(\E outcome \in InsertOutcomes : WriteCourt(s, outcome))

\* Function calls handled one after the other, by whatever session and
\* server process, on a calendar that is initialized and answers every read;
\* a write may fail.
BeginAlone(s, requests) ==
    /\ \A t \in Sessions : ~InFlight(t)
    /\ Begin(s, requests)

InitSeq ==
    /\ facilities = load_facilities
    /\ service = TRUE
    /\ events = <<>>
    /\ written = <<>>
    /\ succeeded = {}
    /\ call = [s \in Sessions |-> IdleCall]
    /\ last = NoLast
    /\ answered = NoAnswer
    /\ budget = MaxCalls
    /\ args = NoArgs
    /\ value = NoValue
    /\ socket = NoSocket

NextSeq ==
    \/ \E s \in Sessions : BeginAlone(s, SessionRequests)
    \/ \E s \in Sessions, outcome \in SessionOutcomes : ReadCourt(s, outcome)
    \/ \E s \in Sessions, outcome \in InsertOutcomes : WriteCourt(s, outcome)

SpecSeq == InitSeq /\ [][NextSeq]_vars

\* A directory of two facilities, one with so many courts that the number of
\* one court starts with the number of another and with an id that holds
\* the id of the other facility; bookings are made under a plain customer
\* name and under one that reads like a court marker. Calls run one after
\* the other and the calendar answers every request.
IsolationFacilities ==
    (FacilityId :> [Facility EXCEPT !.number_of_courts = ManyCourts])
    @@ (OtherFacilityId :> [Facility EXCEPT !.facility_id = OtherFacilityId,
                                            !.facility_name = "Pickle X Two"])

IsolationRequests ==
    {[r EXCEPT !.name = name] :
        r \in CreateBookingRequest({FacilityId}, {1}, {<<14, 0>>}, {60},
                                   {<<1>>, <<ManyCourts>>}),
        name \in NameInputs \cup {MarkerName}}
    \cup CheckAvailabilityRequest({FacilityId, OtherFacilityId}, {1}, {<<14, 0>>},
                                  {60}, {1})

InitIsolation ==
    /\ facilities = IsolationFacilities
    /\ service = TRUE
    /\ events = <<>>
    /\ written = <<>>
    /\ succeeded = {}
    /\ call = [s \in Sessions |-> IdleCall]
    /\ last = NoLast
    /\ answered = NoAnswer
    /\ budget = 2
    /\ args = NoArgs
    /\ value = NoValue
    /\ socket = NoSocket

NextIsolation ==
    \/ \E s \in Sessions : BeginAlone(s, IsolationRequests)
    \/ \E s \in Sessions, outcome \in SessionOutcomes : ReadCourt(s, outcome)
    \/ \E s \in Sessions, outcome \in SessionOutcomes : WriteCourt(s, outcome)

SpecIsolation == InitIsolation /\ [][NextIsolation]_vars

\* The websocket loop of a realtime session: every message it can read, the
\* function calls among them with well-formed and with malformed arguments
\* and with names of functions the session does not have; the calendar
\* answers or fails every request. One session is followed.
KnownFunctions == {"check_availability", "create_booking"}
FunctionNameInputs == KnownFunctions \cup {"cancel_booking", "None"}
OtherTypeInputs == {"audio", "session.update", "ping", "None"}
Followed == {1}

SocketRequests ==
    CheckAvailabilityRequest({FacilityId}, {1}, {<<14, 0>>, <<25, 0>>}, {60}, {1})
    \cup CreateBookingRequest({FacilityId}, {1}, {<<14, 0>>}, {60}, {<<1>>})

\* data.get("arguments", {}): an object that builds the request of its
\* function, an object that lacks a field of it, or no object at all
ArgumentsInputs ==
    [kind : {"object"}, request : SocketRequests]
    \cup [kind : {"missing_field", "not_an_object"}, request : {NoRequest}]

UnknownFunction(function_name) ==
    [success |-> FALSE, error |-> Str("Unknown function: ", function_name, 0, 0)]

ErrorExecuting(function_name, exc) ==
    [success |-> FALSE,
     error |-> [prefix |-> "Error executing ", function_name |-> function_name,
                text |-> exc]]

ErrorMessage(error) == [type |-> "error", error |-> error]

handle_function_call_UnknownRaises(function_name, arguments) ==
    IF function_name \notin KnownFunctions
    THEN Raise("KeyError")
    ELSE IF arguments.kind = "not_an_object"
    THEN Ret(ErrorExecuting(function_name, "TypeError"))
    ELSE IF arguments.kind = "missing_field" \/ arguments.request.op # function_name
    THEN Ret(ErrorExecuting(function_name, "ValidationError"))
    ELSE [k |-> "run"]

\* handle_function_call up to the call of the booking service: the requests
\* it answers itself, and the ones it hands to the booking service
handle_function_call(function_name, arguments) ==
    IF function_name \notin KnownFunctions
    THEN Ret(UnknownFunction(function_name))
    ELSE IF arguments.kind = "not_an_object"
    THEN Ret(ErrorExecuting(function_name, "TypeError"))
    ELSE IF arguments.kind = "missing_field" \/ arguments.request.op # function_name
    THEN Ret(ErrorExecuting(function_name, "ValidationError"))
    ELSE [k |-> "run"]

\* the loop of session s is at receive_text, and the event loop of its
\* server process is free to run it
Receiving(s) ==
    /\ s \in DOMAIN socket
    /\ socket[s].open
    /\ call[s].pc = "idle"
    /\ ~LoopBusy(WorkerOf(s))

\* the session of s reads `message`, sends `replies` and reads on, or ends
Handle(s, message, replies, open) ==
    /\ socket' = [socket EXCEPT ![s] = [Read(@, message) EXCEPT !.sent = replies,
                                                               !.open = open]]
    /\ UNCHANGED <<facilities, service, events, written, succeeded, call, last,
                   answered, budget, args, value>>

OtherMessage(type) ==
    [type |-> type, function_name |-> "", arguments |-> "", call |-> 0]

\* if message_type == "function_call":
ReceiveFunctionCall(s, function_name, arguments) ==
    /\ Receiving(s)
    /\ LET handled == handle_function_call(function_name, arguments)
           message == FunctionCallMessage(function_name, arguments.kind, 0)
       IN  IF handled.k = "run"
           THEN Begin(s, {arguments.request})
           ELSE IF handled.k = "return"
           THEN Handle(s, message, <<function_result(function_name, handled.v)>>, TRUE)
           ELSE Handle(s, message, <<ErrorMessage(handled.exc)>>, FALSE)

\* the audio, session.update and ping branches, and the else branch
ReceiveOther(s, type) ==
    /\ Receiving(s)
    /\ Handle(s, OtherMessage(type),
              IF type = "audio" THEN <<[type |-> "audio_received"]>>
              ELSE IF type = "session.update" THEN <<[type |-> "session.updated"]>>
              ELSE IF type = "ping" THEN <<[type |-> "pong"]>>
              ELSE <<>>,
              TRUE)

\* except json.JSONDecodeError, inside the loop
ReceiveInvalidJson(s) ==
    /\ Receiving(s)
    /\ Handle(s, OtherMessage("invalid_json"),
              <<ErrorMessage("Invalid JSON format")>>, TRUE)

\* the text is JSON but not an object: data.get raises AttributeError, which
\* the handler around the loop catches
ReceiveNotAnObject(s) ==
    /\ Receiving(s)
    /\ Handle(s, OtherMessage("not_an_object"),
              <<ErrorMessage("AttributeError")>>, FALSE)

\* receive_text raises WebSocketDisconnect
Disconnect(s) ==
    /\ Receiving(s)
    /\ Handle(s, OtherMessage("websocket.disconnect"), <<>>, FALSE)

InitSession ==
    /\ facilities = load_facilities
    /\ service = TRUE
    /\ events = <<>>
    /\ written = <<>>
    /\ succeeded = {}
    /\ call = [s \in Sessions |-> IdleCall]
    /\ last = NoLast
    /\ answered = NoAnswer
    /\ budget = 2
    /\ args = NoArgs
    /\ value = NoValue
    /\ socket = [s \in Followed |-> OpenSocket]

NextSession ==
    \/ \E s \in Sessions, function_name \in FunctionNameInputs,
           arguments \in ArgumentsInputs :
           ReceiveFunctionCall(s, function_name, arguments)
    \/ \E s \in Sessions, type \in OtherTypeInputs : ReceiveOther(s, type)
    \/ \E s \in Sessions : ReceiveInvalidJson(s)
    \/ \E s \in Sessions : ReceiveNotAnObject(s)
    \/ \E s \in Sessions : Disconnect(s)
    \/ \E s \in Sessions, outcome \in ListOutcomes : ReadCourt(s, outcome)
    \/ \E s \in Sessions, outcome \in InsertOutcomes : WriteCourt(s, outcome)

SpecSession == InitSession /\ [][NextSession]_vars

\* Function calls that repeat a question: availability asked for one window
\* of a calendar that already holds bookings, while a booking for that
\* window may be made.
TwiceRequests ==
    CheckAvailabilityRequest({FacilityId}, {1}, {<<14, 0>>, <<14, 30>>, <<25, 0>>},
                             {60}, {1, NumCourts})
    \cup CreateBookingRequest({FacilityId}, {1}, {<<14, 0>>}, {60}, {<<1>>})

InitTwice ==
    /\ facilities = load_facilities
    /\ service \in BOOLEAN
    /\ events \in SeedStores
    /\ written = [i \in 1..Len(events) |-> [session |-> 0, call |-> 0, seen |-> i - 1]]
    /\ succeeded = {}
    /\ call = [s \in Sessions |-> IdleCall]
    /\ last = NoLast
    /\ answered = NoAnswer
    /\ budget = 2
    /\ args = NoArgs
    /\ value = NoValue
    /\ socket = NoSocket

NextTwice ==
    \/ \E s \in Sessions : Begin(s, TwiceRequests)
    \/ \E s \in Sessions, outcome \in ListOutcomes : ReadCourt(s, outcome)
    \/ \E s \in Sessions, outcome \in SessionOutcomes : WriteCourt(s, outcome)

SpecTwice == InitTwice /\ [][NextTwice]_vars

\* The validators and the time helpers, applied on their own to arguments
\* drawn from the sets below.
RuleInputs ==
    [minimum_duration : {30, 60},
     duration_multiples : {30, 45, 60},
     fixed_slots : BOOLEAN]

SlotDurationInputs == {0, 30, 45, 60, 90, 120}

EndDurationInputs == {-60, 0, 30, 60, 90, MinutesPerDay}

RECURSIVE Lists(_, _)
Lists(values, n) ==
    IF n = 0 THEN {<<>>}
    ELSE Lists(values, n - 1)
         \cup {Append(l, v) : l \in Lists(values, n - 1), v \in values}

RequestedInputs == Lists(0..(NumCourts + 1), NumCourts + 1)

StartInstantInputs ==
    {combine_datetime(1, t).v : t \in {t \in TimeInputs : parse_ok(t)}}

PureArgs ==
    [fn : {"validate_booking_slot"},
     start_time : TimeInputs,
     duration_minutes : SlotDurationInputs,
     booking_rules : RuleInputs]
    \cup [fn : {"validate_court_numbers"},
          court_numbers : RequestedInputs,
          number_of_courts : 0..(NumCourts + 1)]
    \cup [fn : {"get_end_datetime"},
          start_dt : StartInstantInputs,
          d1 : EndDurationInputs,
          d2 : EndDurationInputs]
    \cup [fn : {"calculate_end_time"},
          start_time : TimeInputs,
          d1 : EndDurationInputs,
          d2 : EndDurationInputs]

InitPure ==
    /\ facilities = load_facilities
    /\ service = TRUE
    /\ events = <<>>
    /\ written = <<>>
    /\ succeeded = {}
    /\ call = [s \in Sessions |-> IdleCall]
    /\ last = NoLast
    /\ answered = NoAnswer
    /\ budget = 0
    /\ args \in PureArgs
    /\ value = NoValue
    /\ socket = NoSocket

Apply(fn, result) ==
    /\ args.fn = fn
    /\ value = NoValue
    /\ value' = result
    /\ UNCHANGED <<facilities, service, events, written, succeeded, call, last,
                   answered, budget, args, socket>>

ApplyValidateBookingSlot ==
    Apply("validate_booking_slot",
          Ret(validate_booking_slot(args.start_time, args.duration_minutes,
                                    args.booking_rules)))

ApplyValidateCourtNumbers ==
    Apply("validate_court_numbers",
          Ret(validate_court_numbers(args.court_numbers, args.number_of_courts)))

\* the end of start + (d1 + d2), and the end of (the end of start + d1) + d2
ApplyGetEndDatetime ==
    Apply("get_end_datetime",
          [k |-> "applied",
           whole |-> get_end_datetime(args.start_dt, args.d1 + args.d2),
           then |-> get_end_datetime(get_end_datetime(args.start_dt, args.d1),
                                     args.d2)])

ApplyCalculateEndTime ==
    Apply("calculate_end_time",
          LET whole == calculate_end_time(args.start_time, args.d1 + args.d2)
              first == calculate_end_time(args.start_time, args.d1)
              second == IF first.k = "raise" THEN first
                        ELSE calculate_end_time(first.v, args.d2)
          IN  [k |-> "applied", whole |-> whole, then |-> second])

NextPure ==
    \/ ApplyValidateBookingSlot
    \/ ApplyValidateCourtNumbers
    \/ ApplyGetEndDatetime
    \/ ApplyCalculateEndTime

SpecPure == InitPure /\ [][NextPure]_vars

\* ================================================================ claims
Returned == last.session # 0
IsCheck == Returned /\ last.request.op = "check_availability"
IsCreate == Returned /\ last.request.op = "create_booking"

CountIds(joined) == Cardinality({i \in 1..Len(joined) : joined[i] > 0})

FacilityOf(request) == get_facility_by_id(facilities, request.facility_id)

SlotOf(request) ==
    validate_booking_slot(request.start_time, request.duration_minutes,
                          FacilityOf(request)[2].booking_rules)

CourtsOf(request) ==
    validate_court_numbers(request.court_numbers,
                           FacilityOf(request)[2].number_of_courts)

HoursOf(request) ==
    is_within_operating_hours(request.start_time,
        calculate_end_time(request.start_time, request.duration_minutes).v,
        FacilityOf(request)[2].open_time, FacilityOf(request)[2].close_time)

\* C1: create_booking returns success=true only if an event was created for
\* every court of request.court_numbers: no create-event call returned no
\* identifier, and booking_id and data.booking_ids hold one identifier per
\* requested court.
C1_SuccessOnlyIfEveryCourtBooked ==
    (IsCreate /\ last.result.success)
        => /\ last.nones = 0
           /\ CountIds(last.result.booking_id) = Len(last.request.court_numbers)
           /\ Len(last.result.data.booking_ids) = Len(last.request.court_numbers)

\* C2: when the resolver returned a free list that lacks a requested court,
\* create_booking returns success=false, the error names the first such court
\* in request order, and the call issued no create-event request.
C2_FirstUnavailableCourtAborts ==
    (IsCreate /\ last.resolved
       /\ \E j \in 1..Len(last.request.court_numbers) :
              last.request.court_numbers[j] \notin Range(last.available_courts))
        => LET courts == last.request.court_numbers
               first == CHOOSE j \in 1..Len(courts) :
                            /\ courts[j] \notin Range(last.available_courts)
                            /\ \A h \in 1..(j - 1) :
                                   courts[h] \in Range(last.available_courts)
           IN  /\ ~last.result.success
               /\ last.result.error =
                      Str("", "Court is not available at the requested time",
                          courts[first], 0)
               /\ last.writes = 0
               /\ last.booking_ids = <<>>

C2_Witness ==
    /\ IsCreate /\ last.resolved
    /\ Len(last.request.court_numbers) = 2
    /\ last.request.court_numbers[1] > last.request.court_numbers[2]
    /\ Range(last.request.court_numbers) \cap Range(last.available_courts) = {}
    /\ last.result.error.a = last.request.court_numbers[1]
    /\ last.writes = 0

Conflict(i, j) ==
    /\ events[i].facility_id = events[j].facility_id
    /\ events[i].court_number = events[j].court_number
    /\ events[i].start < events[j].end
    /\ events[j].start < events[i].end

C4_ExceptionsBecomeResults ==
    /\ \A s \in Sessions : call[s].pc # "crashed"
    /\ (Returned /\ last.raised # "none")
           => /\ ~last.result.success
              /\ last.result.error.text = last.raised
              /\ IsCheck => /\ ~last.result.available
                            /\ last.result.error.prefix = "Error checking availability: "
              /\ IsCreate => last.result.error.prefix = "Error creating booking: "
    /\ Returned => last.result.success \in BOOLEAN

C4_Witness ==
    /\ IsCreate
    /\ last.raised = "TransportError"
    /\ last.writes = 2
    /\ ~last.result.success

\* C5: a read of the calendar that fails for any reason counts the court as
\* free, and check_availability does not answer with a failure because of it.
C5_FailOpenOnAnyReadFailure ==
    (IsCheck /\ last.failed_reads # {})
        => /\ last.failed_reads \subseteq Range(last.available_courts)
           /\ last.result.success

Contained(request) ==
    LET facility == FacilityOf(request)[2]
    IN  /\ parse_ok(request.start_time)
        /\ parse_time(request.start_time) >= parse_time(facility.open_time)
        /\ parse_time(request.start_time) + request.duration_minutes
               <= parse_time(facility.close_time)

\* C6: no available=true answer and no calendar write is produced for an
\* interval that is not contained in [open, close] of the requested day.
C6_OnlyWithinOperatingHours ==
    ((IsCheck /\ last.result.available) \/ (IsCreate /\ last.writes > 0))
        => Contained(last.request)

\* C7: available=true implies success=true and at least number_of_courts
\* free courts, free_courts being the list the resolver returned in this
\* call; success=false implies available=false and no free_courts.
C7_AvailableOnlyIfEnoughFree ==
    IsCheck
        => /\ last.result.available
                 => /\ last.result.success
                    /\ last.resolved
                    /\ last.result.free_courts = last.available_courts
                    /\ Len(last.result.free_courts) >= last.request.number_of_courts
           /\ ~last.result.success
                 => /\ ~last.result.available
                    /\ last.result.free_courts = <<>>

C7_Witness ==
    /\ IsCheck
    /\ last.result.available
    /\ last.reads = NumCourts
    /\ Len(last.result.free_courts) = last.request.number_of_courts
    /\ Len(last.result.free_courts) < NumCourts

\* C8: with the facility found, the slot valid and inside operating hours and
\* the resolver returning F, check_availability returns success=true,
\* free_courts = F and available = (|F| >= number_of_courts); on a shortfall
\* the reason states it and data carries F and the requested count.
C8_CheckReportsResolverAnswer ==
    /\ (IsCheck /\ last.resolved)
           => /\ last.result.success
              /\ last.result.free_courts = last.available_courts
              /\ last.result.available
                     = (Len(last.available_courts) >= last.request.number_of_courts)
              /\ last.result.error = None
              /\ ~last.result.available
                     => /\ last.result.reason_if_not_available =
                               Str("", "Only court(s) available, but requested",
                                   Len(last.available_courts),
                                   last.request.number_of_courts)
                        /\ last.result.data.available_courts = last.available_courts
                        /\ last.result.data.requested_courts
                               = last.request.number_of_courts
    /\ (IsCheck /\ FacilityOf(last.request)[1] /\ SlotOf(last.request)[1]
          /\ parse_ok(last.request.start_time) /\ HoursOf(last.request)[1]
          /\ last.raised = "none")
           => last.resolved

C8_Witness ==
    /\ IsCheck /\ last.resolved
    /\ last.reads = NumCourts
    /\ last.result.success /\ ~last.result.available
    /\ Len(last.result.free_courts) = NumCourts - 1
    /\ last.result.data.requested_courts = NumCourts

\* C9: with the calendar service not initialized every create_booking fails
\* with the not-initialized error, whatever the request, and issues no
\* calendar read or write.
C9_NotInitializedFirst ==
    /\ (IsCreate /\ ~service)
           => /\ ~last.result.success
              /\ last.result.error = NotInitialized
              /\ last.reads = 0 /\ last.writes = 0
    /\ \A s \in Sessions :
           (call[s].request.op = "create_booking" /\ ~service) => ~InFlight(s)

C9_Witness ==
    /\ IsCreate /\ ~service
    /\ ~FacilityOf(last.request)[1]
    /\ last.request.start_time = NoColon
    /\ last.request.court_numbers = <<>>
    /\ last.result.error = NotInitialized

\* C10: create_booking reports the first failing check in the order slot,
\* court numbers, operating hours, prefixed with that check's category, and
\* has then touched the calendar neither for reading nor for writing.
C10_FirstFailingCheckReported ==
    (IsCreate /\ service /\ FacilityOf(last.request)[1])
        => LET slot == SlotOf(last.request)
               courts == CourtsOf(last.request)
               hours == HoursOf(last.request)
               failed(error) == /\ ~last.result.success
                                /\ last.result.error = error
                                /\ last.reads = 0 /\ last.writes = 0
           IN  IF ~slot[1]
               THEN failed(WithPrefix("Invalid slot: ", slot[2]))
               ELSE IF ~courts[1]
               THEN failed(WithPrefix("Invalid court numbers: ", courts[2]))
               ELSE (parse_ok(last.request.start_time) /\ ~hours[1])
                        => failed(WithPrefix("Outside operating hours: ", hours[2]))

C10_Witness ==
    /\ IsCreate /\ service /\ FacilityOf(last.request)[1]
    /\ ~SlotOf(last.request)[1]
    /\ ~CourtsOf(last.request)[1]
    /\ parse_ok(last.request.start_time) /\ ~HoursOf(last.request)[1]
    /\ last.result.error.prefix = "Invalid slot: "

SlotApplied == args.fn = "validate_booking_slot" /\ value.k = "return"

NotAMultiple ==
    args.duration_minutes % args.booking_rules.duration_multiples # 0

MultipleReason ==
    Str("", "Duration must be a multiple of",
        args.booking_rules.duration_multiples, args.duration_minutes)

PassesAlignment ==
    args.booking_rules.fixed_slots
        => (args.start_time # NoColon /\ args.start_time[2] = 0)

\* C11: for every start time and rule set, a duration that is not a multiple
\* of rules.duration_multiples makes validate_booking_slot return ok=false
\* with the 'must be a multiple of <duration_multiples>' reason, whatever
\* the minimum duration and the alignment of the start time.
C11_NonMultipleNamesMultiple ==
    (SlotApplied /\ NotAMultiple)
        => /\ value.v[1] = FALSE
           /\ value.v[2] = MultipleReason

\* C11 (amended): such a duration always makes validate_booking_slot return
\* ok=false; the reason is that of the first failing check in the order
\* alignment (when fixed_slots), minimum duration, multiple, so it is the
\* 'must be a multiple of' reason exactly when the start time passes the
\* alignment check and the duration reaches the minimum.
C11_NonMultipleRejected ==
    (SlotApplied /\ NotAMultiple)
        => /\ value.v[1] = FALSE
           /\ value.v[2] =
                  IF ~PassesAlignment
                  THEN IF args.start_time = NoColon
                       THEN Str("", "Invalid time format", 0, 0)
                       ELSE Str("", "Start time must align with hourly boundaries", 0, 0)
                  ELSE IF args.duration_minutes < args.booking_rules.minimum_duration
                  THEN Str("", "Duration must be at least",
                           args.booking_rules.minimum_duration, 0)
                  ELSE MultipleReason

C11_Witness ==
    /\ SlotApplied /\ NotAMultiple
    /\ args.booking_rules.fixed_slots /\ args.start_time = <<14, 0>>
    /\ args.duration_minutes = 90
    /\ args.booking_rules.minimum_duration = 60
    /\ args.booking_rules.duration_multiples = 60
    /\ value.v = <<FALSE, MultipleReason>>

\* C12: with fixed_slots a start time with non-zero minutes is rejected;
\* without fixed_slots the minutes do not matter: start times of the same
\* hour get the same answer for the same duration and rules.
C12_MinutesMatterOnlyWhenFixed ==
    SlotApplied
        => /\ (args.booking_rules.fixed_slots /\ args.start_time # NoColon
                  /\ args.start_time[2] # 0)
                 => value.v[1] = FALSE
           /\ (~args.booking_rules.fixed_slots /\ args.start_time # NoColon)
                 => \A minute \in {0, 15, 30, 59} :
                        validate_booking_slot(<<args.start_time[1], minute>>,
                                              args.duration_minutes,
                                              args.booking_rules) = value.v

C12_Witness ==
    /\ SlotApplied
    /\ ~args.booking_rules.fixed_slots
    /\ args.start_time = <<14, 30>>
    /\ value.v = <<TRUE, Empty>>

CourtsApplied == args.fn = "validate_court_numbers" /\ value.k = "return"

InRange(n) == n >= 1 /\ n <= args.number_of_courts

HasDuplicate(l) == \E i \in 1..Len(l), j \in 1..Len(l) : i < j /\ l[i] = l[j]

\* C13: validate_court_numbers accepts a list exactly when it is non-empty,
\* within [1, total_courts] and without duplicates; the reason is that of
\* the first failing check in the order empty, out of range (first offending
\* element in list order), duplicate.
C13_CourtNumbersWellFormed ==
    CourtsApplied
        => LET l == args.court_numbers
               offending == {i \in 1..Len(l) : ~InRange(l[i])}
               first == CHOOSE i \in offending : \A h \in offending : i <= h
           IN  /\ value.v[1] = (l # <<>> /\ offending = {} /\ ~HasDuplicate(l))
               /\ value.v[2] =
                      IF l = <<>>
                      THEN Str("", "At least one court must be specified", 0, 0)
                      ELSE IF offending # {}
                      THEN Str("", "Invalid court number", l[first],
                               args.number_of_courts)
                      ELSE IF HasDuplicate(l)
                      THEN Str("", "Duplicate court numbers found in request", 0, 0)
                      ELSE Empty
               /\ l = UpTo(args.number_of_courts) /\ l # <<>> => value.v[1]

C13_Witness ==
    /\ CourtsApplied
    /\ Len(args.court_numbers) = 3
    /\ args.court_numbers[1] = args.court_numbers[3]
    /\ InRange(args.court_numbers[1])
    /\ args.court_numbers[2] > args.number_of_courts
    /\ value.v = <<FALSE, Str("", "Invalid court number", args.court_numbers[2],
                              args.number_of_courts)>>

\* C16: the end instant is plain addition and composes over durations:
\* the end of start + (d1 + d2) is the end of (the end of start + d1) + d2,
\* for get_end_datetime and for the wall-clock helper calculate_end_time.
C16_EndComposes ==
    /\ (args.fn = "get_end_datetime" /\ value.k = "applied")
           => /\ value.whole = value.then
              /\ value.whole = args.start_dt + args.d1 + args.d2
    /\ (args.fn = "calculate_end_time" /\ value.k = "applied")
           => value.whole = value.then

\* 23:00 plus 60 and then 60 minutes, across midnight
C16_Witness ==
    /\ args.fn = "calculate_end_time" /\ value.k = "applied"
    /\ args.start_time = <<23, 0>> /\ args.d1 = 60 /\ args.d2 = 60
    /\ value.then = Ret(<<1, 0>>)
    /\ value.whole = value.then

\* the events the call that returned last has inserted
OwnEvents == {i \in 1..Len(events) : written[i].session = last.session}

Position(seq, x) == CHOOSE i \in 1..Len(seq) : seq[i] = x

WriteLoopDone ==
    /\ IsCreate /\ last.raised = "none"
    /\ last.writes > 0
    /\ last.writes = Len(last.request.court_numbers)

\* C15: after the write loop create_booking fails with 'Failed to create
\* calendar events' exactly when no create-event call returned an
\* identifier; otherwise it succeeds, booking_id is the comma-joined sequence
\* of the returned identifiers in the order of request.court_numbers, and
\* data.booking_ids is that sequence.
C15_ResultAfterWriteLoop ==
    WriteLoopDone
        => LET result == last.result
               ids == result.data.booking_ids
           IN  /\ (last.nones = last.writes)
                      = (~result.success
                           /\ result.error
                                = Str("", "Failed to create calendar events", 0, 0))
               /\ (last.nones < last.writes)
                      => /\ result.success
                         /\ Len(ids) = last.writes - last.nones
                         /\ {ids[k] : k \in 1..Len(ids)}
                                = {events[i].id : i \in OwnEvents}
                         /\ \A k \in 1..Len(ids), l \in 1..Len(ids) :
                                k < l =>
                                    Position(last.request.court_numbers,
                                             events[ids[k]].court_number)
                                    < Position(last.request.court_numbers,
                                               events[ids[l]].court_number)
                         /\ Len(result.booking_id) = 2 * Len(ids) - 1
                         /\ \A k \in 1..Len(ids) :
                                result.booking_id[2 * k - 1] = ids[k]

\* the first create-event call returned no identifier, the second did
C15_Witness ==
    /\ WriteLoopDone
    /\ last.writes = 2 /\ last.nones = 1
    /\ last.request.court_numbers[1] > last.request.court_numbers[2]
    /\ last.result.success
    /\ Len(last.result.booking_id) = 1
    /\ events[last.result.booking_id[1]].court_number
           = last.request.court_numbers[2]

Validated(request) ==
    /\ FacilityOf(request)[1]
    /\ SlotOf(request)[1]
    /\ request.op = "create_booking" => CourtsOf(request)[1]
    /\ parse_ok(request.start_time)
    /\ HoursOf(request)[1]

\* C17: a call is at a calendar read or write, or has issued one, only if
\* the facility was found and the slot, (for create_booking) the court
\* numbers and the operating hours passed their checks; a check_availability
\* that fails the slot or the hours check returns success=false,
\* available=false with reason_if_not_available set and no error.
C17_ValidationPrecedesCalendar ==
    /\ \A s \in Sessions : InFlight(s) => Validated(call[s].request)
    /\ (Returned /\ (last.reads > 0 \/ last.writes > 0 \/ last.courts_read # <<>>))
           => Validated(last.request)
    /\ (IsCheck /\ FacilityOf(last.request)[1]
          /\ (~SlotOf(last.request)[1]
                 \/ (parse_ok(last.request.start_time) /\ ~HoursOf(last.request)[1])))
           => /\ ~last.result.success
              /\ ~last.result.available
              /\ last.result.reason_if_not_available
                     = IF ~SlotOf(last.request)[1]
                       THEN SlotOf(last.request)[2]
                       ELSE HoursOf(last.request)[2]
              /\ last.result.reason_if_not_available \notin {None, Empty}
              /\ last.result.error = None
              /\ last.reads = 0

\* the calendar is there, the slot is valid, the booking would end after
\* closing time: nothing is read
C17_Witness ==
    /\ IsCheck /\ service
    /\ FacilityOf(last.request)[1] /\ SlotOf(last.request)[1]
    /\ parse_ok(last.request.start_time) /\ ~HoursOf(last.request)[1]
    /\ last.result.reason_if_not_available.text = "Facility closes at"
    /\ last.reads = 0
    /\ events # <<>>

\* what the read of court c answers on the calendar as it stands
AnswersFree(request, c) ==
    \/ ~service
    \/ c \in last.failed_reads
    \/ ~ \E i \in 1..Len(events) :
            /\ events[i].start < Window(request).end_dt
            /\ events[i].end > Window(request).start_dt
            /\ CourtMarkerInSummary(c, events[i])
            /\ events[i].facility_id = request.facility_id

C19_OneWritePerRequestedCourt ==
    /\ \A s \in Sessions :
           call[s].pc = "write"
               => /\ Range(call[s].request.court_numbers)
                         \subseteq Range(call[s].available_courts)
                  /\ call[s].courts_written
                         = SubSeq(call[s].request.court_numbers, 1, call[s].cursor - 1)
                  /\ call[s].writes = call[s].cursor - 1
    /\ (IsCreate /\ last.resolved
          /\ Range(last.request.court_numbers) \subseteq Range(last.available_courts))
           => /\ last.courts_written = last.request.court_numbers
              /\ last.writes = Len(last.request.court_numbers)

\* the call for the first court returned no identifier, the call for the
\* second court was issued all the same
C19_Witness ==
    /\ IsCreate /\ last.resolved
    /\ last.request.court_numbers = <<2, 1>>
    /\ last.courts_written = <<2, 1>>
    /\ last.nones = 1
    /\ \E i \in OwnEvents : events[i].court_number = 1
    /\ ~ \E i \in OwnEvents : events[i].court_number = 2

\* C20: no step of check_availability or create_booking deletes or changes
\* an event: the calendar after a step is the calendar before it, possibly
\* with events added, whatever the step's write did and whatever is returned.
C20_EventsOnlyGrow ==
    [][/\ Len(events') >= Len(events)
       /\ SubSeq(events', 1, Len(events)) = events]_vars

\* the write for the second court raised after the first court was written:
\* the call answers success=false and the first event is still there
C20_Witness ==
    /\ IsCreate
    /\ last.raised = "TransportError"
    /\ ~last.result.success
    /\ last.writes = 2
    /\ \E i \in OwnEvents :
           events[i].court_number = last.request.court_numbers[1]

\* the call that returned last is a later check_availability with the
\* request of the first one, and the calendar answered its reads as it
\* answered the reads of the first one: from the same events, with the same
\* failures
SameQuestion ==
    /\ IsCheck
    /\ answered # NoAnswer
    /\ answered.call # last.call
    /\ answered.request = last.request
    /\ answered.seen = last.seen
    /\ answered.failed_reads = last.failed_reads
    /\ answered.raised = last.raised

Overlaps(ev, request) ==
    /\ ev.start < Window(request).end_dt
    /\ ev.end > Window(request).start_dt

C22_BookingIsolation ==
    (IsCheck /\ last.resolved /\ last.failed_reads = {})
        => \A c \in 1..FacilityOf(last.request)[2].number_of_courts :
               c \notin Range(last.available_courts)
                   => \E i \in 1..Len(events) :
                          /\ events[i].facility_id = last.request.facility_id
                          /\ events[i].court_number = c
                          /\ Overlaps(events[i], last.request)

\* C23: check_availability is read-only. A call of check_availability never
\* reaches the write loop and returns without one create-event request, and
\* the only steps that change the calendar are steps of the write loop of a
\* create_booking call; no step of either function changes the facility
\* directory.
C23_CheckIsReadOnly ==
    /\ [](/\ \A s \in Sessions :
                (call[s].request.op = "check_availability")
                    => /\ call[s].pc # "write"
                       /\ call[s].writes = 0
                       /\ call[s].courts_written = <<>>
           /\ (IsCheck => last.writes = 0 /\ last.courts_written = <<>>))
    /\ [][/\ facilities' = facilities
          /\ (events' # events \/ written' # written)
              => \E s \in Sessions :
                        /\ call[s].pc = "write"
                        /\ call[s].request.op = "create_booking"
                        /\ call'[s] # call[s]
                        /\ \A t \in Sessions \ {s} : call'[t] = call[t]]_vars

\* a check_availability read every court of a calendar that holds bookings,
\* found a court taken, and returned with the calendar as it found it
C23_Witness ==
    /\ IsCheck
    /\ last.resolved
    /\ last.reads = NumCourts
    /\ last.writes = 0
    /\ Len(last.available_courts) < NumCourts
    /\ events \in SeedStores
    /\ events # <<>>
    /\ facilities = load_facilities

\* the one message a session sent since it read a function_call message is
\* the function_result of that function
OneResult(k) ==
    /\ Len(k.sent) = 1
    /\ k.sent[1].type = "function_result"
    /\ k.sent[1].function_name = k.message.function_name

Failure(result) == ~result.success /\ result.error # None

\* C24: a session that has read a function_call message reads no other
\* message while the function runs, and has sent exactly one function_result
\* with the name of the function once it reads on; the result of a function
\* the session does not have, of arguments that do not build the request and
\* of a function that raised is success=false with an error, and the session
\* is still open; after text that is not JSON the session has sent one
\* error message and is still open.
C24_FunctionCallsAnswered ==
    \A s \in DOMAIN socket :
        LET k == socket[s]
        IN  /\ call[s].pc \in {"idle", "read", "write"}
            /\ InFlight(s)
                   => /\ k.open
                      /\ k.message.type = "function_call"
                      /\ k.message.function_name = call[s].request.op
                      /\ k.message.call = call[s].id
                      /\ k.sent = <<>>
            /\ (~InFlight(s) /\ k.message.type = "function_call")
                   => /\ k.open
                      /\ OneResult(k)
                      /\ (\/ k.message.function_name \notin KnownFunctions
                          \/ k.message.arguments # "object")
                             => Failure(k.sent[1].result)
                      /\ (last # NoLast /\ last.session = s
                             /\ last.call = k.message.call)
                             => /\ k.sent[1].result = last.result
                                /\ last.raised # "none"
                                       => Failure(k.sent[1].result)
            /\ k.message.type = "invalid_json"
                   => /\ k.open
                      /\ k.sent = <<ErrorMessage("Invalid JSON format")>>

\* a session read text that is not JSON and then a create_booking call, which
\* it answered with the result of a booking that was made
C24_Witness ==
    \E s \in DOMAIN socket :
        /\ socket[s].previous = "invalid_json"
        /\ socket[s].message.type = "function_call"
        /\ socket[s].message.function_name = "create_booking"
        /\ OneResult(socket[s])
        /\ socket[s].sent[1].result.success
        /\ last # NoLast
        /\ last.session = s
        /\ Len(events) = 1

\* the courts of the facility of a request; none when the directory does not
\* have the facility
TotalCourts(request) ==
    IF FacilityOf(request)[1] THEN FacilityOf(request)[2].number_of_courts ELSE 0

\* the requests to the calendar a call has made are within what its request
\* allows: one read per court of the facility, one write per requested court
WithinWork(c) ==
    /\ c.reads <= TotalCourts(c.request)
    /\ c.writes <= Len(c.request.court_numbers)
    /\ (c.request.op = "check_availability") => c.writes = 0
    /\ c.courts_read = UpTo(Len(c.courts_read))
    /\ c.courts_written = SubSeq(c.request.court_numbers, 1, c.writes)

\* C25: a function call that has started returns, given that every request
\* to the calendar returns: a call that is running is at a read of a court
\* it has not read or at a write of a court it has not written, it makes at
\* most one read per court of the facility and one write per requested
\* court, and it comes back to the session loop.
C25_EveryCallReturns ==
    /\ [](/\ \A s \in Sessions :
                /\ call[s].pc \in {"idle", "read", "write"}
                /\ WithinWork(call[s])
                /\ (call[s].pc = "read")
                       => /\ call[s].cursor = call[s].reads + 1
                          /\ call[s].cursor <= TotalCourts(call[s].request)
                /\ (call[s].pc = "write")
                       => /\ call[s].cursor = call[s].writes + 1
                          /\ call[s].cursor <= Len(call[s].request.court_numbers)
           /\ (Returned => WithinWork(last)))
    /\ \A s \in Sessions : InFlight(s) ~> (call[s].pc = "idle" /\ Returned)

\* a create_booking returned after a read of every court of the facility,
\* one of which failed, and a write for each of its two courts
C25_Witness ==
    /\ IsCreate
    /\ last.reads = NumCourts
    /\ last.failed_reads # {}
    /\ last.writes = 2
    /\ Len(last.request.court_numbers) = 2

====
